---- MODULE Spec2Model ----
(***************************************************************************)
(* Model of desktop/src-tauri/src/lib.rs: the supervisor of the backend    *)
(* child process (start_backend, stop_backend), its output readers         *)
(* (spawn_output_reader) and its health-check task.                        *)
(***************************************************************************)
EXTENDS Integers, Sequences, FiniteSets, TLC

\* ---------------------------------------------------------------- bounds
\* Number of threads that call stop_backend (the exit hook calls it once).
MaxStops == 2
\* Number of lines the child writes to each of its two streams.
MaxLines == 2

\* ------------------------------------------------------ program constants
\* let max_attempts: u32 = 300;
max_attempts == 300
\* let interval = Duration::from_millis(500);
interval_ms == 500
\* reqwest::Client::builder().timeout(Duration::from_secs(2))
request_timeout_ms == 2000

Stoppers == 1..MaxStops
Streams == {"stdout", "stderr"}

VARIABLES
    startPc,        \* position of the setup task inside start_backend / run
    startResult,    \* what start_backend returned: "none", "Ok" or the Err text
    child,          \* the OS process: "unspawned", "running", "exited", "reaped"
    kills,          \* number of Child::kill calls made
    waits,          \* number of Child::wait calls made
    slot,           \* BackendProcess: "None" or "Child" (Some(child))
    lock,           \* holder of the BackendProcess mutex: 0 (free) or a stopper
    stopPc,         \* position of each stop_backend caller
    stopChild,      \* whether each caller holds the handle it took from the slot
    stopKill,       \* what child.kill() returned to each caller: "none", "Ok", "Err"
    proberPc,       \* position of the health-check task
    attempt,        \* the loop variable of the health-check loop
    probes,         \* number of client.get(..).send() calls made
    sleeps,         \* number of tokio::time::sleep(interval) calls made
    lastResp,       \* the answer to the latest probe
    readyAttempts,  \* the attempt count logged with "Backend healthy after .."
    elapsed,        \* ms the loop has taken at most: a request up to its timeout, a sleep
    events,         \* the events emitted to the parent application, in order
    readerPc,       \* position of each output reader thread
    out,            \* the lines the child has written to each stream
    pipe,           \* the lines written to each stream and not yet read
    logFile,        \* the lines appended to backend.log, in order
    sink,           \* the lines forwarded to the log crate, in order
    healthPc,       \* position of a check_backend_health call: "idle" or "send"
    healthResp,     \* the answer to the latest check_backend_health request
    healthRet       \* what the latest check_backend_health call returned

startVars == <<startPc, startResult>>
childVars == <<child, kills, waits>>
slotVars == <<slot, lock>>
stopVars == <<stopPc, stopChild, stopKill>>
proberVars == <<proberPc, attempt, probes, sleeps, lastResp, readyAttempts, elapsed>>
captureVars == <<readerPc, out, pipe, logFile, sink>>
healthVars == <<healthPc, healthResp, healthRet>>
vars == <<startVars, childVars, slotVars, stopVars, proberVars, events, captureVars, healthVars>>

\* ---------------------------------------------------------------- events
ReadyEvent == [name |-> "backend-ready", payload |-> "()"]
TimeoutMessage == "Backend did not become healthy within 150s"
ErrorEvent(msg) == [name |-> "backend-error", payload |-> msg]

Emit(e) == events' = Append(events, e)

Count(seq, name) == Cardinality({i \in DOMAIN seq : seq[i].name = name})

\* ------------------------------------------------------- health endpoint
\* One answer of GET /api/v1/health: send() failed, or a response with a
\* status (success or not) and a body that parses to HealthResponse or not.
NetError == [sent |-> FALSE, success |-> FALSE, body |-> "unparseable"]
Responses ==
    {NetError} \cup
    [sent : {TRUE}, success : BOOLEAN, body : {"unparseable", "starting", "healthy"}]
NoResponse == [sent |-> FALSE, success |-> FALSE, body |-> "none"]

\* The endpoint is served by the child on 127.0.0.1:8000: once the child is
\* gone every request fails to connect.
Answers == IF child = "running" THEN Responses ELSE {NetError}

IsReady_AnyParsedBody(r) == r.sent /\ r.success /\ r.body # "unparseable"

\* Ok(resp) if resp.status().is_success(), body parses, body.status == "healthy"
IsReady(r) == r.sent /\ r.success /\ r.body = "healthy"

\* ---------------------------------------------------------- start_backend
ResolveDataErrors ==
    {"Failed to resolve app data directory",
     "Failed to create app data directory",
     "Failed to create data subdirectory"}
ResourceDirError == "Failed to resolve resource directory"
SpawnError == "Failed to spawn backend process"
StartErrors == ResolveDataErrors \cup {ResourceDirError, SpawnError}

\* `?` on an Err: start_backend returns it to the task spawned in setup.
StartFail(msg) ==
    /\ startPc' = "emit_err"
    /\ startResult' = msg

StartResolveData ==
    /\ startPc = "resolve_data"
    /\ \/ /\ startPc' = "resource_dir"
          /\ UNCHANGED startResult
       \/ \E msg \in ResolveDataErrors : StartFail(msg)
    /\ UNCHANGED <<childVars, slotVars, stopVars, proberVars, events, captureVars, healthVars>>

StartResourceDir ==
    /\ startPc = "resource_dir"
    /\ \/ /\ startPc' = "spawn"
          /\ UNCHANGED startResult
       \/ StartFail(ResourceDirError)
    /\ UNCHANGED <<childVars, slotVars, stopVars, proberVars, events, captureVars, healthVars>>

StartSpawn ==
    /\ startPc = "spawn"
    /\ \/ /\ startPc' = "readers"
          /\ child' = "running"
          /\ UNCHANGED startResult
       \/ /\ StartFail(SpawnError)
          /\ UNCHANGED child
    /\ UNCHANGED <<kills, waits, slotVars, stopVars, proberVars, events, captureVars, healthVars>>

\* child.stdout.take(), child.stderr.take() and the two spawn_output_reader calls.
StartReaders ==
    /\ startPc = "readers"
    /\ startPc' = "stash"
    /\ readerPc' = [s \in Streams |-> "open"]
    /\ UNCHANGED <<startResult, childVars, slotVars, stopVars, proberVars, events,
                   out, pipe, logFile, sink, healthVars>>

\* *state.0.lock().unwrap() = Some(child);
StartStash ==
    /\ startPc = "stash"
    /\ lock = 0
    /\ slot' = "Child"
    /\ startPc' = "health"
    /\ UNCHANGED <<startResult, childVars, lock, stopVars, proberVars, events, captureVars, healthVars>>

\* tauri::async_runtime::spawn(async move { .. }) of the health-check task.
StartSpawnHealth ==
    /\ startPc = "health"
    /\ startPc' = "return"
    /\ proberPc' = "build"
    /\ UNCHANGED <<startResult, childVars, slotVars, stopVars, attempt, probes, sleeps,
                   lastResp, readyAttempts, elapsed, events, captureVars, healthVars>>

StartReturn_AfterHealth ==
    /\ startPc = "return"
    /\ proberPc \in {"ready", "failed"}
    /\ startPc' = "done"
    /\ startResult' = "Ok"
    /\ UNCHANGED <<childVars, slotVars, stopVars, proberVars, events, captureVars, healthVars>>

\* Ok(())
StartReturn ==
    /\ startPc = "return"
    /\ startPc' = "done"
    /\ startResult' = "Ok"
    /\ UNCHANGED <<childVars, slotVars, stopVars, proberVars, events, captureVars, healthVars>>

RunEmitError_LogOnly ==
    /\ startPc = "emit_err"
    /\ startPc' = "done"
    /\ UNCHANGED <<startResult, childVars, slotVars, stopVars, proberVars, events,
                   captureVars, healthVars>>

\* run: if let Err(e) = start_backend(&handle).await { handle.emit("backend-error", e) }
RunEmitError ==
    /\ startPc = "emit_err"
    /\ Emit(ErrorEvent(startResult))
    /\ startPc' = "done"
    /\ UNCHANGED <<startResult, childVars, slotVars, stopVars, proberVars, captureVars, healthVars>>

StartStep ==
    \/ StartResolveData
    \/ StartResourceDir
    \/ StartSpawn
    \/ StartReaders
    \/ StartStash
    \/ StartSpawnHealth
    \/ StartReturn
    \/ RunEmitError

\* ------------------------------------------------------------- the child
\* The backend process exits on its own.
ChildExit ==
    /\ child = "running"
    /\ child' = "exited"
    /\ UNCHANGED <<kills, waits, startVars, slotVars, stopVars, proberVars, events, captureVars, healthVars>>

\* ------------------------------------------------------------ stop_backend
StopLock_NoMutex(t) ==
    /\ stopPc[t] = "idle"
    /\ lock' = t
    /\ stopPc' = [stopPc EXCEPT ![t] = "take"]
    /\ UNCHANGED <<slot, stopChild, stopKill, startVars, childVars, proberVars, events,
                   captureVars, healthVars>>

\* let mut guard = state.0.lock().unwrap();
StopLock(t) ==
    /\ stopPc[t] = "idle"
    /\ lock = 0
    /\ lock' = t
    /\ stopPc' = [stopPc EXCEPT ![t] = "take"]
    /\ UNCHANGED <<slot, stopChild, stopKill, startVars, childVars, proberVars, events,
                   captureVars, healthVars>>

StopTake_NoClear(t) ==
    /\ stopPc[t] = "take"
    /\ IF slot = "Child"
       THEN /\ stopChild' = [stopChild EXCEPT ![t] = TRUE]
            /\ stopPc' = [stopPc EXCEPT ![t] = "kill"]
       ELSE /\ stopPc' = [stopPc EXCEPT ![t] = "return"]
            /\ UNCHANGED stopChild
    /\ UNCHANGED <<slot, lock, stopKill, startVars, childVars, proberVars, events,
                   captureVars, healthVars>>

\* if let Some(mut child) = guard.take() { .. }
StopTake(t) ==
    /\ stopPc[t] = "take"
    /\ IF slot = "Child"
       THEN /\ slot' = "None"
            /\ stopChild' = [stopChild EXCEPT ![t] = TRUE]
            /\ stopPc' = [stopPc EXCEPT ![t] = "kill"]
       ELSE /\ stopPc' = [stopPc EXCEPT ![t] = "return"]
            /\ UNCHANGED <<slot, stopChild>>
    /\ UNCHANGED <<lock, stopKill, startVars, childVars, proberVars, events, captureVars,
                   healthVars>>

StopKill_WaitsAnyway(t) ==
    /\ stopPc[t] = "kill"
    /\ kills' = kills + 1
    /\ \/ /\ child' = IF child = "running" THEN "exited" ELSE child
          /\ stopKill' = [stopKill EXCEPT ![t] = "Ok"]
       \/ /\ stopKill' = [stopKill EXCEPT ![t] = "Err"]
          /\ UNCHANGED child
    /\ stopPc' = [stopPc EXCEPT ![t] = "wait"]
    /\ UNCHANGED <<waits, slotVars, stopChild, startVars, proberVars, events, captureVars,
                   healthVars>>

\* match child.kill() { Ok(()) => .., Err(e) => log::error!(..) }
StopKill(t) ==
    /\ stopPc[t] = "kill"
    /\ kills' = kills + 1
    /\ \/ /\ child' = IF child = "running" THEN "exited" ELSE child
          /\ stopKill' = [stopKill EXCEPT ![t] = "Ok"]
          /\ stopPc' = [stopPc EXCEPT ![t] = "wait"]
       \/ /\ stopKill' = [stopKill EXCEPT ![t] = "Err"]
          /\ stopPc' = [stopPc EXCEPT ![t] = "return"]
          /\ UNCHANGED child
    /\ UNCHANGED <<waits, slotVars, stopChild, startVars, proberVars, events, captureVars, healthVars>>

StopWait_CancelsHealth(t) ==
    /\ stopPc[t] = "wait"
    /\ child # "running"
    /\ child' = "reaped"
    /\ waits' = waits + 1
    /\ stopPc' = [stopPc EXCEPT ![t] = "return"]
    /\ proberPc' = IF proberPc \in {"probe", "sleep"} THEN "aborted" ELSE proberPc
    /\ UNCHANGED <<kills, slotVars, stopChild, stopKill, startVars, attempt, probes, sleeps,
                   lastResp, readyAttempts, elapsed, events, captureVars, healthVars>>

StopWait_EmitsTerminated(t) ==
    /\ stopPc[t] = "wait"
    /\ child # "running"
    /\ child' = "reaped"
    /\ waits' = waits + 1
    /\ stopPc' = [stopPc EXCEPT ![t] = "return"]
    /\ Emit([name |-> "backend-terminated", payload |-> "killed"])
    /\ UNCHANGED <<kills, slotVars, stopChild, stopKill, startVars, proberVars,
                   captureVars, healthVars>>

\* let _ = child.wait();  (returns once the child has exited)
StopWait(t) ==
    /\ stopPc[t] = "wait"
    /\ child # "running"
    /\ child' = "reaped"
    /\ waits' = waits + 1
    /\ stopPc' = [stopPc EXCEPT ![t] = "return"]
    /\ UNCHANGED <<kills, slotVars, stopChild, stopKill, startVars, proberVars, events,
                   captureVars, healthVars>>

\* End of stop_backend: the taken child and then the guard are dropped.
StopReturn(t) ==
    /\ stopPc[t] = "return"
    /\ lock' = 0
    /\ stopChild' = [stopChild EXCEPT ![t] = FALSE]
    /\ stopPc' = [stopPc EXCEPT ![t] = "done"]
    /\ UNCHANGED <<slot, stopKill, startVars, childVars, proberVars, events, captureVars,
                   healthVars>>

\* The steps of a stop_backend call once it holds the guard.
StopProgress(t) ==
    \/ StopTake(t)
    \/ StopKill(t)
    \/ StopWait(t)
    \/ StopReturn(t)

StopCall(t) ==
    \/ StopLock(t)
    \/ StopProgress(t)

StopStep == \E t \in Stoppers : StopCall(t)

\* run: app.run(|app_handle, event| if let RunEvent::Exit = event { stop_backend(..) })
ExitCaller == 1
ExitHook == StopCall(ExitCaller)

\* ------------------------------------------------------ health-check task
ProberBuild_ZeroBased ==
    /\ proberPc = "build"
    /\ \/ /\ proberPc' = "probe"
          /\ attempt' = 0
       \/ /\ proberPc' = "aborted"
          /\ UNCHANGED attempt
    /\ UNCHANGED <<probes, sleeps, lastResp, readyAttempts, elapsed, events,
                   startVars, childVars, slotVars, stopVars, captureVars, healthVars>>

\* reqwest::Client::builder().timeout(..).build(): Err => log and return;
\* Ok => the loop `for attempt in 1..=max_attempts` starts.
ProberBuild ==
    /\ proberPc = "build"
    /\ \/ /\ proberPc' = "probe"
          /\ attempt' = 1
       \/ /\ proberPc' = "aborted"
          /\ UNCHANGED attempt
    /\ UNCHANGED <<probes, sleeps, lastResp, readyAttempts, elapsed, events,
                   startVars, childVars, slotVars, stopVars, captureVars, healthVars>>

\* One client.get(health_url).send().await and the match on its result.
ProberProbe ==
    /\ proberPc = "probe"
    /\ \E r \in Answers :
        /\ lastResp' = r
        /\ probes' = probes + 1
        /\ elapsed' = elapsed + request_timeout_ms
        /\ IF IsReady(r)
           THEN /\ readyAttempts' = attempt
                /\ Emit(ReadyEvent)
                /\ proberPc' = "ready"
           ELSE /\ proberPc' = "sleep"
                /\ UNCHANGED <<readyAttempts, events>>
    /\ UNCHANGED <<attempt, sleeps, startVars, childVars, slotVars, stopVars, captureVars, healthVars>>

LoopHasNext_Exclusive(a) == a + 1 < max_attempts

LoopHasNext_Inclusive(a) == a <= max_attempts

\* for attempt in 1..=max_attempts
LoopHasNext(a) == a < max_attempts

\* tokio::time::sleep(interval).await, then the next iteration or the loop's end.
ProberSleep ==
    /\ proberPc = "sleep"
    /\ sleeps' = sleeps + 1
    /\ elapsed' = elapsed + interval_ms
    /\ IF LoopHasNext(attempt)
       THEN /\ attempt' = attempt + 1
            /\ proberPc' = "probe"
       ELSE /\ proberPc' = "timeout"
            /\ UNCHANGED attempt
    /\ UNCHANGED <<probes, lastResp, readyAttempts, events,
                   startVars, childVars, slotVars, stopVars, captureVars, healthVars>>

ProberTimeout_KillsChild ==
    /\ proberPc = "timeout"
    /\ Emit(ErrorEvent(TimeoutMessage))
    /\ proberPc' = "failed"
    /\ slot' = "None"
    /\ kills' = IF slot = "Child" THEN kills + 1 ELSE kills
    /\ child' = IF slot = "Child" /\ child = "running" THEN "exited" ELSE child
    /\ UNCHANGED <<attempt, probes, sleeps, lastResp, readyAttempts, elapsed,
                   startVars, waits, lock, stopVars, captureVars, healthVars>>

\* app_for_health.emit("backend-error", "Backend did not become healthy within 150s")
ProberTimeout ==
    /\ proberPc = "timeout"
    /\ Emit(ErrorEvent(TimeoutMessage))
    /\ proberPc' = "failed"
    /\ UNCHANGED <<attempt, probes, sleeps, lastResp, readyAttempts, elapsed,
                   startVars, childVars, slotVars, stopVars, captureVars, healthVars>>

ProberStep ==
    \/ ProberBuild
    \/ ProberProbe
    \/ ProberSleep
    \/ ProberTimeout

\* ---------------------------------------------------------- output capture
\* What the child may write as one line: two texts and a line that is not UTF-8.
Texts == {"a", "b", "invalid-utf8"}

\* BufRead::lines(): Ok(text), or Err(InvalidData) for a line that is not UTF-8.
LineResult(l) ==
    IF l = "invalid-utf8" THEN [ok |-> FALSE, text |-> ""] ELSE [ok |-> TRUE, text |-> l]

\* writeln!(log_file, "[{label}] {text}")
FileEntry(label, text) == <<label, text>>

\* log::error!/log::info!("[backend {label}] {text}")
SinkEntry(label, text) ==
    [level |-> IF label = "stderr" THEN "error" ELSE "info", label |-> label, text |-> text]

StreamOpen(s) == child = "running"

ChildWrite ==
    /\ child = "running"
    /\ \E s \in Streams, l \in Texts :
        /\ Len(out[s]) < MaxLines
        /\ out' = [out EXCEPT ![s] = Append(@, l)]
        /\ pipe' = [pipe EXCEPT ![s] = Append(@, l)]
    /\ UNCHANGED <<readerPc, logFile, sink, startVars, childVars, slotVars, stopVars,
                   proberVars, events, healthVars>>

\* OpenOptions::new().create(true).append(true).open(&log_path): Err => return.
ReaderOpen(s) ==
    /\ readerPc[s] = "open"
    /\ \/ readerPc' = [readerPc EXCEPT ![s] = "reading"]
       \/ readerPc' = [readerPc EXCEPT ![s] = "open_failed"]
    /\ UNCHANGED <<out, pipe, logFile, sink, startVars, childVars, slotVars, stopVars,
                   proberVars, events, healthVars>>

\* One iteration of `for line in reader.lines()`.
ReaderLine(s) ==
    /\ readerPc[s] = "reading"
    /\ pipe[s] # <<>>
    /\ pipe' = [pipe EXCEPT ![s] = Tail(@)]
    /\ LET line == LineResult(Head(pipe[s]))
       IN  IF line.ok
           THEN /\ sink' = Append(sink, SinkEntry(s, line.text))
                /\ \/ logFile' = Append(logFile, FileEntry(s, line.text))
                   \/ UNCHANGED logFile   \* `let _ =`: a failed write is ignored
                /\ UNCHANGED readerPc
           ELSE /\ readerPc' = [readerPc EXCEPT ![s] = "read_error"]
                /\ UNCHANGED <<sink, logFile>>
    /\ UNCHANGED <<out, startVars, childVars, slotVars, stopVars, proberVars, events, healthVars>>

\* reader.lines() ends: every line was read and the write end is closed.
ReaderEof(s) ==
    /\ readerPc[s] = "reading"
    /\ pipe[s] = <<>>
    /\ ~StreamOpen(s)
    /\ readerPc' = [readerPc EXCEPT ![s] = "done"]
    /\ UNCHANGED <<out, pipe, logFile, sink, startVars, childVars, slotVars, stopVars,
                   proberVars, events, healthVars>>

ReaderStep ==
    \E s \in Streams :
        \/ ReaderOpen(s)
        \/ ReaderLine(s)
        \/ ReaderEof(s)

\* ---------------------------------------------------- check_backend_health
\* Ok(resp) => Ok(resp.status().is_success()), Err(_) => Ok(false)
HealthResult(r) == IF r.sent /\ r.success THEN "true" ELSE "false"

\* The command is invoked: Client::builder().timeout(..).build().map_err(..)?
CheckBuild ==
    /\ healthPc = "idle"
    /\ healthResp' = NoResponse
    /\ \/ /\ healthPc' = "send"
          /\ healthRet' = "none"
       \/ /\ healthRet' = "Err"
          /\ UNCHANGED healthPc
    /\ UNCHANGED <<startVars, childVars, slotVars, stopVars, proberVars, events, captureVars>>

\* match client.get(..).send().await { .. }
CheckSend ==
    /\ healthPc = "send"
    /\ \E r \in Answers :
        /\ healthResp' = r
        /\ healthRet' = HealthResult(r)
    /\ healthPc' = "idle"
    /\ UNCHANGED <<startVars, childVars, slotVars, stopVars, proberVars, events, captureVars>>

CheckStep ==
    \/ CheckBuild
    \/ CheckSend

\* ------------------------------------------------------- specifications
\* run: .manage(BackendProcess(Mutex::new(None))) and the task spawned in setup.
Init ==
    /\ startPc = "resolve_data"
    /\ startResult = "none"
    /\ child = "unspawned"
    /\ kills = 0
    /\ waits = 0
    /\ slot = "None"
    /\ lock = 0
    /\ stopPc = [t \in Stoppers |-> "idle"]
    /\ stopChild = [t \in Stoppers |-> FALSE]
    /\ stopKill = [t \in Stoppers |-> "none"]
    /\ proberPc = "none"
    /\ attempt = 0
    /\ probes = 0
    /\ sleeps = 0
    /\ lastResp = NoResponse
    /\ readyAttempts = 0
    /\ elapsed = 0
    /\ events = <<>>
    /\ readerPc = [s \in Streams |-> "none"]
    /\ out = [s \in Streams |-> <<>>]
    /\ pipe = [s \in Streams |-> <<>>]
    /\ logFile = <<>>
    /\ sink = <<>>
    /\ healthPc = "idle"
    /\ healthResp = NoResponse
    /\ healthRet = "none"

\* Supervisor, stop_backend callers and the health-check task.
Next ==
    \/ StartStep
    \/ ChildExit
    \/ StopStep
    \/ ProberStep

Spec == Init /\ [][Next]_vars

\* The program as run() wires it: stop_backend is called by the exit hook only.
NextRun ==
    \/ StartStep
    \/ ChildExit
    \/ ExitHook
    \/ ProberStep

\* The tokio runtime keeps polling a spawned task that can run, and a thread
\* that has entered stop_backend keeps running; whether and when the
\* application exits, and whether the child exits, is left open.
Fairness ==
    /\ WF_vars(StartStep)
    /\ WF_vars(ProberStep)
    /\ WF_vars(StopProgress(ExitCaller))

FairSpec == Init /\ [][NextRun]_vars /\ Fairness

\* The program as run() wires it, with the frontend invoking check_backend_health.
NextHealth ==
    \/ NextRun
    \/ CheckStep

SpecHealth == Init /\ [][NextHealth]_vars

\* Supervisor, the child's output and the two readers (for a reader a kill
\* by stop_backend is the child's exit: the write ends close).
NextCapture ==
    \/ StartStep
    \/ ChildExit
    \/ ChildWrite
    \/ ReaderStep

SpecCapture == Init /\ [][NextCapture]_vars

\* ------------------------------------------------------------ properties
Polling == {"probe", "sleep"}
ProberFinished == {"ready", "failed", "aborted"}
ReaderFinished == {"done", "read_error", "open_failed"}

\* HTTP success with status == "healthy", as the specification words it.
HealthyAnswer(r) == r.sent = TRUE /\ r.success = TRUE /\ r.body = "healthy"

ReadyCount(seq) == Count(seq, "backend-ready")
ErrorCount(seq) == Count(seq, "backend-error")

\* C1: at most one of backend-ready / backend-error is ever emitted, and once
\* the health-check task has finished exactly one has been emitted.
C1_ExactlyOneOutcome ==
    /\ Len(events) <= 1
    /\ proberPc \in ProberFinished => Len(events) = 1

\* C2: a probe whose answer is not HTTP success with status "healthy" leaves
\* the prober polling (it goes to the sleep before the next attempt) and emits
\* nothing; backend-ready is emitted only by a probe step whose answer is HTTP
\* success with status "healthy".
C2_OnlyHealthyIsReady ==
    [][ /\ probes' # probes =>
            /\ probes' = probes + 1
            /\ ~HealthyAnswer(lastResp') =>
                    /\ proberPc' = "sleep"
                    /\ attempt' = attempt
                    /\ events' = events
            /\ ReadyCount(events') > ReadyCount(events) => HealthyAnswer(lastResp')
        /\ probes' = probes => ReadyCount(events') = ReadyCount(events)
      ]_vars

C2_Witness ==
    /\ proberPc = "sleep"
    /\ lastResp = [sent |-> TRUE, success |-> TRUE, body |-> "starting"]
    /\ events = <<>>

\* C3: a stop_backend call that finds the slot empty sends no kill, waits for
\* nothing, leaves the slot empty and returns; no child is sent kill twice.
C3_StopIdempotent ==
    /\ [][ \A t \in Stoppers :
            (stopPc[t] = "take" /\ slot = "None" /\ stopPc'[t] # "take") =>
                /\ stopPc'[t] = "return"
                /\ ~stopChild'[t]
                /\ slot' = "None"
                /\ kills' = kills
                /\ waits' = waits
                /\ child' = child
                /\ events' = events
         ]_vars
    /\ [](\A t \in Stoppers : stopPc[t] = "return" => ENABLED StopReturn(t))
    /\ [](kills <= 1)

C3_Witness ==
    \E t, u \in Stoppers :
        /\ t # u
        /\ stopPc[t] = "done"
        /\ stopPc[u] = "done"
        /\ kills = 1
        /\ slot = "None"

\* C4: a polling loop in which no attempt is answered healthy ends in Failed:
\* backend-error with the timeout message is emitted after exactly
\* max_attempts probes, no probe follows and backend-ready is never emitted.
C4_TimeoutAfterMaxAttempts ==
    /\ (proberPc = "sleep" /\ probes = max_attempts) ~> (proberPc = "failed")
    /\ (proberPc \in Polling) ~> (proberPc \in {"ready", "failed"})
    /\ [](proberPc \in {"timeout", "failed"} =>
            /\ probes = max_attempts
            /\ attempt = max_attempts
            /\ ~HealthyAnswer(lastResp)
            /\ ReadyCount(events) = 0)
    /\ [](proberPc = "failed" => events = <<ErrorEvent(TimeoutMessage)>>)
    /\ [][proberPc = "failed" => UNCHANGED <<proberPc, probes, events>>]_vars

C4_Witness ==
    /\ proberPc = "failed"
    /\ probes = max_attempts
    /\ events = <<ErrorEvent(TimeoutMessage)>>

\* C5: no step of the health-check task, the transition to Failed included,
\* changes the slot, its lock, the child's status or the kill and wait
\* counts, and no such step waits for the lock.
C5_ProberLeavesProcessAlone ==
    /\ [][proberVars' # proberVars =>
            UNCHANGED <<slot, lock, child, kills, waits, stopPc, stopChild, stopKill>>]_vars
    /\ [](proberPc \in {"build", "probe", "sleep", "timeout"} => ENABLED ProberStep)

C5_Witness ==
    /\ proberPc = "failed"
    /\ child = "running"
    /\ slot = "Child"
    /\ kills = 0

\* C6: when attempt k is the first one answered healthy, backend-ready is
\* emitted in that step, after exactly k probes and k-1 sleeps, the logged
\* attempt count is k, and no further probe or event follows.
C6_ReadyAfterExactlyK ==
    /\ [][(probes' = probes + 1 /\ HealthyAnswer(lastResp')) =>
            /\ proberPc' = "ready"
            /\ probes' = attempt
            /\ events' = Append(events, ReadyEvent)]_vars
    /\ [](proberPc = "ready" =>
            /\ attempt \in 1..max_attempts
            /\ probes = attempt
            /\ sleeps = attempt - 1
            /\ readyAttempts = attempt
            /\ events = <<ReadyEvent>>)
    /\ [][proberPc = "ready" => UNCHANGED <<proberPc, attempt, probes, sleeps, events>>]_vars

C6_Witness ==
    /\ proberPc = "ready"
    /\ probes = 5
    /\ sleeps = 4
    /\ readyAttempts = 5

\* The texts of the log file's entries of stream s, in file order.
FileTexts(s) ==
    LET mine == SelectSeq(logFile, LAMBDA e : e[1] = s)
    IN  [i \in 1..Len(mine) |-> mine[i][2]]

\* The texts forwarded to the log crate for stream s, in order.
SinkTexts(s) ==
    LET mine == SelectSeq(sink, LAMBDA e : e.label = s)
    IN  [i \in 1..Len(mine) |-> mine[i].text]

\* C7: once a stream is closed and its reader has finished, the reader's
\* entries in the log file and in the log sink are exactly the lines written
\* to that stream, in order.
C7_NoDropNoReorder ==
    \A s \in Streams :
        (readerPc[s] \in ReaderFinished /\ ~StreamOpen(s)) =>
            /\ FileTexts(s) = out[s]
            /\ SinkTexts(s) = out[s]

\* C8: a reader thread finishes only at the end of its stream: never while
\* the stream is still open, and never with lines left unread.
C8_FinishOnlyAtStreamEnd ==
    \A s \in Streams :
        readerPc[s] \in ReaderFinished => (~StreamOpen(s) /\ pipe[s] = <<>>)

\* C9: once the child is gone while the prober is polling, the prober goes on
\* to exhaust its budget and emits backend-error; no stop_backend step
\* changes the prober's position or counters.
C9_ProberOutlivesProcess ==
    /\ (child \in {"exited", "reaped"} /\ proberPc \in Polling) ~>
            (proberPc = "failed" /\ probes = max_attempts /\ ErrorCount(events) = 1)
    /\ [][stopPc' # stopPc => UNCHANGED proberVars]_vars

C9_Witness ==
    /\ child = "reaped"
    /\ kills = 1
    /\ proberPc = "sleep"
    /\ probes > 1
    /\ lastResp = NetError

\* C10: after a successful spawn every remaining step of start_backend is
\* enabled whatever the prober's position (only the stash waits, and only
\* for the slot's lock), start_backend returns Ok, never Err, and it can
\* return while the prober has not yet made a probe.
C10_StartDoesNotWaitForHealth ==
    /\ [](startPc = "readers" => ENABLED StartReaders)
    /\ [](startPc = "stash" /\ lock = 0 => ENABLED StartStash)
    /\ [](startPc = "health" => ENABLED StartSpawnHealth)
    /\ [](startPc = "return" => ENABLED StartReturn)
    /\ [](child # "unspawned" => startResult \in {"none", "Ok"})
    /\ [](startResult = "Ok" => proberPc # "none" /\ child # "unspawned")
    /\ (startPc = "readers") ~> (startResult = "Ok")

C10_Witness ==
    /\ startResult = "Ok"
    /\ startPc = "done"
    /\ proberPc = "build"
    /\ probes = 0
    /\ slot = "Child"

\* C11: when start_backend returns Err, no child was spawned or stored, no
\* reader and no health-check task was started, and once run has handled the
\* result the emitted events are exactly one backend-error carrying that Err.
C11_StartFailureSurfacesOnce ==
    startResult \in StartErrors =>
        /\ child = "unspawned"
        /\ slot = "None"
        /\ \A s \in Streams : readerPc[s] = "none"
        /\ proberPc = "none"
        /\ startPc \in {"emit_err", "done"}
        /\ startPc = "emit_err" => events = <<>>
        /\ startPc = "done" => events = <<ErrorEvent(startResult)>>

C11_Witness ==
    /\ startResult = SpawnError
    /\ startPc = "done"
    /\ events = <<ErrorEvent(SpawnError)>>
    /\ \E t \in Stoppers : stopPc[t] = "done"

\* C12: once the exit hook's stop_backend has returned and start_backend has
\* finished, no spawned child is still running without having been sent kill.
C12_ShutdownKillsChild ==
    (stopPc[ExitCaller] = "done" /\ startPc = "done") =>
        ~(child = "running" /\ kills = 0)

\* C13: a thread inside a blocking call (kill, wait) does not hold the
\* BackendProcess mutex.
C13_NoLockAcrossBlocking ==
    \A t \in Stoppers : stopPc[t] \in {"kill", "wait"} => lock # t

\* C14: check_backend_health never returns an error, and returns true exactly
\* when its one request got an HTTP success status.
C14_HealthAlwaysBoolean ==
    /\ healthRet \in {"none", "true", "false"}
    /\ healthRet = "true" <=> (healthResp.sent /\ healthResp.success)

\* C15: a line that is not valid UTF-8 does not end capture: no reader stops
\* on a read error, and a reader that has finished has forwarded an entry for
\* every line written to its stream.
C15_PermissiveDecoding ==
    \A s \in Streams :
        /\ readerPc[s] # "read_error"
        /\ readerPc[s] = "done" => Len(SinkTexts(s)) = Len(out[s])

\* C16: a reader whose log file could not be opened still reads its stream to
\* the end and forwards every line to the log sink.
C16_OpenFailureDegradesToSink ==
    \A s \in Streams :
        readerPc[s] = "open_failed" =>
            /\ ~StreamOpen(s)
            /\ pipe[s] = <<>>
            /\ Len(SinkTexts(s)) = Len(out[s])

\* C17: after a failed kill the call goes straight to its return: the slot
\* stays empty, nothing is waited for and no event is emitted; after a
\* successful kill the call waits for the child before it returns.
C17_FailedKillNotPropagated ==
    /\ [](\A t \in Stoppers :
            stopKill[t] = "Err" =>
                /\ stopPc[t] \in {"return", "done"}
                /\ slot = "None"
                /\ waits = 0
                /\ child # "reaped")
    /\ [](\A t \in Stoppers :
            (stopKill[t] = "Ok" /\ stopPc[t] \in {"return", "done"}) =>
                /\ waits = 1
                /\ child = "reaped")
    /\ [](\A t \in Stoppers : stopPc[t] = "return" => ENABLED StopReturn(t))
    /\ [][stopPc' # stopPc => events' = events]_vars

C17_Witness ==
    \E t, u \in Stoppers :
        /\ t # u
        /\ stopKill[t] = "Err"
        /\ stopPc[t] = "done"
        /\ stopPc[u] = "done"
        /\ stopKill[u] = "none"
        /\ child = "running"
        /\ events = <<ReadyEvent>>

C19_TakeThenKillAtomic ==
    LET inside == {t \in Stoppers : stopPc[t] \in {"take", "kill", "wait", "return"}}
        killers == {t \in Stoppers : stopKill[t] # "none"}
        holders == {t \in Stoppers : stopChild[t]}
    IN  /\ Cardinality(inside) <= 1
        /\ \A t \in inside : lock = t
        /\ lock # 0 => lock \in inside
        /\ Cardinality(holders \cup killers) <= 1
        /\ kills = Cardinality(killers)
        /\ \A t \in holders : stopPc[t] \in {"kill", "wait", "return"}

C19_Witness ==
    \E t, u \in Stoppers :
        /\ stopPc[t] = "wait"
        /\ stopChild[t]
        /\ lock = t
        /\ stopPc[u] = "idle"
        /\ proberPc = "probe"
        /\ kills = 1

\* C20: every emitted event is backend-ready or backend-error; no step in
\* which the child exits, is killed or is reaped emits an event, and nothing
\* is emitted after backend-ready.
C20_NoTerminatedEvent ==
    /\ [](\A i \in DOMAIN events : events[i].name \in {"backend-ready", "backend-error"})
    /\ [][child' # child /\ child' \in {"exited", "reaped"} => events' = events]_vars
    /\ [][stopPc' # stopPc => events' = events]_vars
    /\ [][ReadyCount(events) > 0 => events' = events]_vars

C20_Witness ==
    /\ events = <<ReadyEvent>>
    /\ proberPc = "ready"
    /\ child = "reaped"
    /\ \A t \in Stoppers : stopPc[t] = "done"

====
